---------------------------- MODULE Spec2Model ----------------------------
(***************************************************************************)
(* A model of assignment.py: the Stock and Trade records, the tagged codec *)
(* (CustomEncoder.default / custom_decoder) and the marshmallow schema     *)
(* codec (StockSchema, TradeSchema, serialize_with_marshmallow,            *)
(* deserialize_with_marshmallow).                                          *)
(*                                                                         *)
(* Python values are tagged records:                                       *)
(*   [t |-> "str", s |-> <<chars>>]      str (a sequence of 1-char strings)*)
(*   [t |-> "int", i |-> n]              int                               *)
(*   [t |-> "dict", m |-> [key |-> v]]   dict (keys are TLA+ strings)      *)
(*   [t |-> "Decimal", sign, int, exp]   decimal.Decimal (sign, digits,    *)
(*                                       exponent, as CPython stores it)   *)
(*   [t |-> "date", y, m, d]             datetime.date                     *)
(*   [t |-> "datetime", ...]             datetime.datetime                 *)
(*   [t |-> "Stock"|"Trade", d |-> m]    an instance and its __dict__      *)
(*   [t |-> "raise", e, named]           a raised exception; named is the  *)
(*                                       set of field names in its message *)
(* The JSON text itself is kept as the tree json.loads gives for it: str,  *)
(* int and dict values only.  Every conversion between a semantic value    *)
(* (Decimal, date, datetime) and its text is computed character by         *)
(* character.                                                              *)
(***************************************************************************)
EXTENDS Integers, Sequences, FiniteSets, TLC

VARIABLES
    kind,     \* "stock" | "trade": the class of the record x (or the schema / tag in use)
    args,     \* the arguments x was constructed with
    obj,      \* x.__dict__, the dict vars(x) returns
    hist,     \* the encoder calls applied to x so far, oldest first
    enc,      \* the encoder that produced wire: "none" | "tagged" | "schema"
    wire,     \* the last encoder output (or the decoder's input mapping)
    dec,      \* the decoder that produced result: "none" | "tagged" | "schema"
    result,   \* the last decoder output
    pc,       \* per thread: position inside CustomEncoder.default
    held,     \* per thread: the value popped from the dict, not yet re-inserted
    out,      \* per thread: what the call returned or raised
    shape     \* the shape of a hand-built decoder input ("none" for an encoder's output)

vars == <<kind, args, obj, hist, enc, wire, dec, result, pc, held, out, shape>>

-----------------------------------------------------------------------------
(* Bounds of the model *)

\* encoder calls applied to one record
MaxCalls == 3
\* digits after the decimal point of the decimal inputs
MaxScale == 2

-----------------------------------------------------------------------------
(* Characters, text and Python's builtin conversions *)

Digits == <<"0", "1", "2", "3", "4", "5", "6", "7", "8", "9">>

IsDigit(c) == \E i \in 1..10 : Digits[i] = c

DigitVal(c) == CHOOSE i \in 0..9 : Digits[i + 1] = c

AllDigits(s) == Len(s) > 0 /\ \A i \in 1..Len(s) : IsDigit(s[i])

RECURSIVE NatStr(_)
NatStr(n) ==
    IF n < 10 THEN <<Digits[n + 1]>>
    ELSE NatStr(n \div 10) \o <<Digits[(n % 10) + 1]>>

RECURSIVE ZeroPad(_, _)
ZeroPad(s, w) == IF Len(s) >= w THEN s ELSE ZeroPad(<<"0">> \o s, w)

RECURSIVE StrNat(_)
StrNat(s) ==
    IF s = <<>> THEN 0
    ELSE StrNat(SubSeq(s, 1, Len(s) - 1)) * 10 + DigitVal(s[Len(s)])

RECURSIVE StripZeros(_)
StripZeros(s) ==
    IF Len(s) > 1 /\ s[1] = "0" THEN StripZeros(Tail(s)) ELSE s

RECURSIVE Zeros(_)
Zeros(n) == IF n <= 0 THEN <<>> ELSE <<"0">> \o Zeros(n - 1)

Str(s) == [t |-> "str", s |-> s]
IntV(i) == [t |-> "int", i |-> i]
Dict(m) == [t |-> "dict", m |-> m]
Raise(e, named) == [t |-> "raise", e |-> e, named |-> named]
IsRaise(v) == v.t = "raise"

Has(d, k) == k \in DOMAIN d
Del(d, k) == [x \in DOMAIN d \ {k} |-> d[x]]
Put(d, k, v) == [x \in DOMAIN d \cup {k} |-> IF x = k THEN v ELSE d[x]]

S_stock == <<"s", "t", "o", "c", "k">>
S_trade == <<"t", "r", "a", "d", "e">>
S_date == <<"d", "a", "t", "e">>
S_option == <<"o", "p", "t", "i", "o", "n">>
S_buy == <<"b", "u", "y">>
S_sell == <<"s", "e", "l", "l">>
S_hold == <<"h", "o", "l", "d">>

-----------------------------------------------------------------------------
(* decimal.Decimal *)

Dec(sign, int, exp) == [t |-> "Decimal", sign |-> sign, int |-> int, exp |-> exp]

\* Decimal.__str__ for exponents -6 < exp <= 0 (no scientific notation)
DecStr(v) ==
    LET dotplace == v.exp + Len(v.int)
        intpart == IF dotplace <= 0 THEN <<"0">>
                   ELSE IF dotplace >= Len(v.int) THEN v.int \o Zeros(dotplace - Len(v.int))
                   ELSE SubSeq(v.int, 1, dotplace)
        fracpart == IF dotplace <= 0 THEN <<".">> \o Zeros(-dotplace) \o v.int
                    ELSE IF dotplace >= Len(v.int) THEN <<>>
                    ELSE <<".">> \o SubSeq(v.int, dotplace + 1, Len(v.int))
    IN  (IF v.sign = 1 THEN <<"-">> ELSE <<>>) \o intpart \o fracpart

\* Decimal(text): sign, digits, optional point and digits; anything else is
\* decimal.InvalidOperation (an ArithmeticError, not a ValueError)
Decimal(s) ==
    LET body == IF Len(s) > 0 /\ s[1] \in {"-", "+"} THEN Tail(s) ELSE s
        dots == {i \in 1..Len(body) : body[i] = "."}
        dot == IF dots = {} THEN Len(body) + 1
               ELSE CHOOSE i \in dots : \A j \in dots : i <= j
        intpart == SubSeq(body, 1, dot - 1)
        fracpart == SubSeq(body, dot + 1, Len(body))
    IN  IF Cardinality(dots) <= 1 /\ AllDigits(intpart \o fracpart)
        THEN Dec(IF Len(s) > 0 /\ s[1] = "-" THEN 1 ELSE 0,
                 StripZeros(intpart \o fracpart), -Len(fracpart))
        ELSE Raise("InvalidOperation", {})

-----------------------------------------------------------------------------
(* datetime.date and datetime.datetime *)

Date(y, m, d) == [t |-> "date", y |-> y, m |-> m, d |-> d]

DateTime(dt, hh, mi, ss, us, off) ==
    [t |-> "datetime", y |-> dt.y, m |-> dt.m, d |-> dt.d,
     hh |-> hh, mi |-> mi, ss |-> ss, us |-> us, off |-> off]

IsLeap(y) == (y % 4 = 0 /\ y % 100 # 0) \/ y % 400 = 0

DaysInMonth(y, m) ==
    IF m = 2 THEN (IF IsLeap(y) THEN 29 ELSE 28)
    ELSE IF m \in {4, 6, 9, 11} THEN 30 ELSE 31

\* date.isoformat(): "%04d-%02d-%02d"
date_isoformat(v) ==
    ZeroPad(NatStr(v.y), 4) \o <<"-">> \o ZeroPad(NatStr(v.m), 2)
        \o <<"-">> \o ZeroPad(NatStr(v.d), 2)

\* date.fromisoformat(text) on the extended format YYYY-MM-DD
date_fromisoformat(s) ==
    IF /\ Len(s) = 10
       /\ s[5] = "-" /\ s[8] = "-"
       /\ AllDigits(SubSeq(s, 1, 4)) /\ AllDigits(SubSeq(s, 6, 7))
       /\ AllDigits(SubSeq(s, 9, 10))
    THEN LET y == StrNat(SubSeq(s, 1, 4))
             m == StrNat(SubSeq(s, 6, 7))
             d == StrNat(SubSeq(s, 9, 10))
         IN  IF y >= 1 /\ m \in 1..12 /\ d >= 1 /\ d <= DaysInMonth(y, m)
             THEN Date(y, m, d)
             ELSE Raise("ValueError", {})
    ELSE Raise("ValueError", {})

\* the UTC offset "+HH:MM" of an aware datetime; off is in minutes
OffsetStr(off) ==
    LET a == IF off < 0 THEN -off ELSE off
    IN  <<IF off < 0 THEN "-" ELSE "+">> \o ZeroPad(NatStr(a \div 60), 2)
            \o <<":">> \o ZeroPad(NatStr(a % 60), 2)

\* datetime.isoformat(): date, "T", time, ".ffffff" when microsecond # 0, offset
datetime_isoformat(v) ==
    date_isoformat(v) \o <<"T">> \o ZeroPad(NatStr(v.hh), 2) \o <<":">>
        \o ZeroPad(NatStr(v.mi), 2) \o <<":">> \o ZeroPad(NatStr(v.ss), 2)
        \o (IF v.us # 0 THEN <<".">> \o ZeroPad(NatStr(v.us), 6) ELSE <<>>)
        \o OffsetStr(v.off)

\* datetime.fromisoformat(text): YYYY-MM-DD, a separator, HH:MM:SS, an optional
\* 6-digit fraction and a +HH:MM / -HH:MM offset
datetime_fromisoformat(s) ==
    IF Len(s) < 25 THEN Raise("ValueError", {})
    ELSE
    LET dt == date_fromisoformat(SubSeq(s, 1, 10))
        frac == s[20] = "."
        tz == IF frac THEN 27 ELSE 20
        h2 == SubSeq(s, 12, 13)
        m2 == SubSeq(s, 15, 16)
        s2 == SubSeq(s, 18, 19)
        f6 == IF frac THEN SubSeq(s, 21, 26) ELSE <<"0">>
        oh == SubSeq(s, tz + 1, tz + 2)
        om == SubSeq(s, tz + 4, tz + 5)
    IN  IF /\ ~IsRaise(dt)
           /\ Len(s) = tz + 5
           /\ s[14] = ":" /\ s[17] = ":"
           /\ AllDigits(h2) /\ AllDigits(m2) /\ AllDigits(s2) /\ AllDigits(f6)
           /\ s[tz] \in {"+", "-"} /\ s[tz + 3] = ":"
           /\ AllDigits(oh) /\ AllDigits(om)
           /\ StrNat(h2) < 24 /\ StrNat(m2) < 60 /\ StrNat(s2) < 60
           /\ StrNat(oh) < 24 /\ StrNat(om) < 60
        THEN DateTime(dt, StrNat(h2), StrNat(m2), StrNat(s2), StrNat(f6),
                      (IF s[tz] = "-" THEN -1 ELSE 1) * (StrNat(oh) * 60 + StrNat(om)))
        ELSE Raise("ValueError", {})

\* str(value) for the values a decimal field can hold on the wire; the repr
\* of any other value is kept only as far as "it is not a decimal literal"
PyStr(v) ==
    CASE v.t = "str" -> v.s
      [] v.t = "int" -> (IF v.i < 0 THEN <<"-">> \o NatStr(-v.i) ELSE NatStr(v.i))
      [] v.t = "Decimal" -> DecStr(v)
      [] v.t = "date" -> date_isoformat(v)
      [] v.t = "datetime" -> datetime_isoformat(v)
      [] OTHER -> <<"{", "}">>

-----------------------------------------------------------------------------
(* The records *)

\* Stock.__init__: the instance's __dict__
Stock(symbol, date, open_, high, low, close, volume) ==
    [symbol |-> symbol, date |-> date, open |-> open_, high |-> high,
     low |-> low, close |-> close, volume |-> volume, datatype |-> Str(S_stock)]

\* Trade.__init__: the instance's __dict__
Trade(symbol, timestamp, order, price, volume, commission) ==
    [symbol |-> symbol, timestamp |-> timestamp, order |-> order, price |-> price,
     commission |-> commission, volume |-> volume, datatype |-> Str(S_trade)]

StockParams == {"symbol", "date", "open_", "high", "low", "close", "volume"}
TradeParams == {"symbol", "timestamp", "order", "price", "volume", "commission"}

\* Stock(**kw): a TypeError unless kw names exactly the parameters
NewStock(kw) ==
    IF DOMAIN kw = StockParams
    THEN [t |-> "Stock",
          d |-> Stock(kw["symbol"], kw["date"], kw["open_"], kw["high"],
                      kw["low"], kw["close"], kw["volume"])]
    ELSE Raise("TypeError", {})

\* Trade(**kw)
NewTrade(kw) ==
    IF DOMAIN kw = TradeParams
    THEN [t |-> "Trade",
          d |-> Trade(kw["symbol"], kw["timestamp"], kw["order"], kw["price"],
                      kw["volume"], kw["commission"])]
    ELSE Raise("TypeError", {})

\* toJSON: vars(self), the instance's own __dict__ (not a copy)
toJSON(inst) == inst.d

-----------------------------------------------------------------------------
(* The tagged encoder *)

\* CustomEncoder.default.  For a Stock or a Trade the dict returned IS the
\* instance's __dict__, so what default does to it is done to the record.
default(arg) ==
    CASE arg.t = "Stock" ->
            LET data == toJSON(arg)
            IN  Dict(IF Has(data, "open")
                     THEN Put(Del(data, "open"), "open_", data["open"])
                     ELSE data)
      [] arg.t = "Trade" -> Dict(toJSON(arg))
      [] arg.t = "datetime" -> Str(datetime_isoformat(arg))
      [] arg.t = "date" ->
            Dict([datatype |-> Str(S_date), date |-> Str(date_isoformat(arg))])
      [] arg.t = "Decimal" -> Str(DecStr(arg))
      [] OTHER -> Raise("TypeError", {})

FirstRaise(m) == LET k == CHOOSE k \in DOMAIN m : IsRaise(m[k]) IN m[k]

\* json.dumps(value, cls=CustomEncoder): str, int and dict are encoded
\* natively, anything else goes through default and its result is encoded
RECURSIVE json_dumps(_)
json_dumps(v) ==
    CASE v.t \in {"str", "int", "raise"} -> v
      [] v.t = "dict" ->
            LET m == [k \in DOMAIN v.m |-> json_dumps(v.m[k])]
            IN  IF \E k \in DOMAIN m : IsRaise(m[k]) THEN FirstRaise(m) ELSE Dict(m)
      [] OTHER -> json_dumps(default(v))

-----------------------------------------------------------------------------
(* The tagged decoder *)

\* date.fromisoformat(value) for a value taken from the wire
ParseDate(v) == IF v.t = "str" THEN date_fromisoformat(v.s) ELSE Raise("TypeError", {})

ParseDateTime(v) ==
    IF v.t = "str" THEN datetime_fromisoformat(v.s) ELSE Raise("TypeError", {})

\* for key in keys: d[key] = Decimal(str(d[key]))
RECURSIVE CoerceDecimals(_, _)
CoerceDecimals(d, keys) ==
    IF keys = <<>> THEN Dict(d)
    ELSE IF ~Has(d, Head(keys)) THEN Raise("KeyError", {Head(keys)})
    ELSE LET v == Decimal(PyStr(d[Head(keys)]))
         IN  IF IsRaise(v) THEN v
             ELSE CoerceDecimals(Put(d, Head(keys), v), Tail(keys))

\* the date of a stock mapping, with the wrapped-mapping branch left out
ResolveDateNoUnwrap(dv) ==
    IF dv.t \in {"date", "datetime"} THEN dv ELSE ParseDate(dv)

\* custom_decoder, the three shapes of a stock mapping's date: a native date
\* (a datetime is one), a wrapped mapping, anything else parsed as ISO text
ResolveDate(dv) ==
    IF dv.t \in {"date", "datetime"} THEN dv
    ELSE IF dv.t = "dict" /\ Has(dv.m, "datatype") /\ dv.m["datatype"] = Str(S_date)
    THEN (IF Has(dv.m, "date") THEN ParseDate(dv.m["date"])
          ELSE Raise("KeyError", {"date"}))
    ELSE ParseDate(dv)

custom_decoder(arg) ==
    IF arg.t = "dict" /\ Has(arg.m, "datatype")
    THEN
      LET datatype == arg.m["datatype"]
          arg_copy == Del(arg.m, "datatype")
      IN
      CASE datatype = Str(S_date) ->
              IF Has(arg.m, "date") THEN ParseDate(arg.m["date"])
              ELSE Raise("KeyError", {"date"})
        [] datatype = Str(S_trade) ->
              LET ts == IF Has(arg_copy, "timestamp")
                        THEN ParseDateTime(arg_copy["timestamp"])
                        ELSE datetime_fromisoformat(<<>>)
                  c == IF IsRaise(ts) THEN ts
                       ELSE CoerceDecimals(Put(arg_copy, "timestamp", ts),
                                           <<"price", "commission">>)
              IN  IF IsRaise(c) THEN c ELSE NewTrade(c.m)
        [] datatype = Str(S_stock) ->
              LET renamed == IF Has(arg_copy, "open")
                             THEN Put(Del(arg_copy, "open"), "open_", arg_copy["open"])
                             ELSE arg_copy
                  c == CoerceDecimals(renamed, <<"open_", "high", "low", "close">>)
              IN  IF IsRaise(c) THEN c
                  ELSE IF ~Has(c.m, "date") THEN Raise("KeyError", {"date"})
                  ELSE
                  LET d == ResolveDate(c.m["date"])
                  IN  IF IsRaise(d) THEN d ELSE NewStock(Put(c.m, "date", d))
        [] OTHER -> arg
    ELSE arg

\* json.loads(text, object_hook=custom_decoder): the hook is applied to every
\* JSON object, innermost first
RECURSIVE json_loads_hook(_)
json_loads_hook(v) ==
    IF v.t = "dict"
    THEN LET m == [k \in DOMAIN v.m |-> json_loads_hook(v.m[k])]
         IN  IF \E k \in DOMAIN m : IsRaise(m[k]) THEN FirstRaise(m)
             ELSE custom_decoder(Dict(m))
    ELSE v

-----------------------------------------------------------------------------
(* The schema codec *)

\* DecimalField._serialize (a record's decimal fields are never None)
DecimalField_serialize(value) == Str(PyStr(value))

\* DecimalField._deserialize: only TypeError and ValueError are turned into a
\* ValidationError; whatever else Decimal raises leaves the method as it is
DecimalField_deserialize(value) ==
    LET r == Decimal(PyStr(value))
    IN  IF IsRaise(r) /\ r.e \in {"TypeError", "ValueError"}
        THEN Raise("ValidationError", {})
        ELSE r

\* a declared field: attribute name, wire key (data_key), field class
Field(attr, key, ty) == [attr |-> attr, key |-> key, ty |-> ty]

StockSchema ==
    <<Field("symbol", "symbol", "Str4"),
      Field("date", "date", "Date"),
      Field("open_", "open", "DecimalField"),
      Field("high", "high", "DecimalField"),
      Field("low", "low", "DecimalField"),
      Field("close", "close", "DecimalField"),
      Field("volume", "volume", "Integer"),
      Field("datatype", "datatype", "ConstantStock")>>

TradeSchema ==
    <<Field("symbol", "symbol", "Str4"),
      Field("timestamp", "timestamp", "DateTime"),
      Field("order", "order", "OneOf"),
      Field("price", "price", "DecimalField"),
      Field("commission", "commission", "DecimalField"),
      Field("volume", "volume", "Integer"),
      Field("datatype", "datatype", "ConstantTrade")>>

\* fields.Constant(..., dump_only=True)
DumpOnly(f) == f.ty \in {"ConstantStock", "ConstantTrade"}

\* Field.serialize on an attribute that is there
FieldSerialize(f, value) ==
    CASE f.ty \in {"Str4", "OneOf"} -> Str(PyStr(value))
      [] f.ty = "Date" ->
            IF value.t \in {"date", "datetime"} THEN Str(date_isoformat(value))
            ELSE Raise("AttributeError", {})
      [] f.ty = "DateTime" ->
            IF value.t = "datetime" THEN Str(datetime_isoformat(value))
            ELSE Raise("AttributeError", {})
      [] f.ty = "DecimalField" -> DecimalField_serialize(value)
      [] f.ty = "Integer" ->
            IF value.t = "int" THEN value ELSE Raise("ValueError", {})
      [] f.ty = "ConstantStock" -> Str(S_stock)
      [] f.ty = "ConstantTrade" -> Str(S_trade)

\* Schema.dump: a field whose attribute the object does not have is left out
\* (marshmallow's `missing`); a Constant never reads the object
Dump(schema, inst) ==
    LET fs == {i \in 1..Len(schema) : DumpOnly(schema[i]) \/ Has(inst.d, schema[i].attr)}
        m == [k \in {schema[i].key : i \in fs} |->
                LET i == CHOOSE i \in fs : schema[i].key = k
                IN  FieldSerialize(schema[i],
                        IF DumpOnly(schema[i]) THEN Str(<<>>) ELSE inst.d[schema[i].attr])]
    IN  IF \E k \in DOMAIN m : IsRaise(m[k]) THEN FirstRaise(m) ELSE Dict(m)

\* Field.deserialize and the field's validators, on a value that is there
FieldDeserialize(f, value) ==
    CASE f.ty = "Str4" ->
            IF value.t = "str" /\ Len(value.s) = 4 THEN value
            ELSE Raise("ValidationError", {})
      [] f.ty = "OneOf" ->
            IF value.t = "str" /\ value.s \in {S_buy, S_sell} THEN value
            ELSE Raise("ValidationError", {})
      [] f.ty = "Date" ->
            IF value.t = "str" /\ ~IsRaise(date_fromisoformat(value.s))
            THEN date_fromisoformat(value.s)
            ELSE Raise("ValidationError", {})
      [] f.ty = "DateTime" ->
            IF value.t = "str" /\ ~IsRaise(datetime_fromisoformat(value.s))
            THEN datetime_fromisoformat(value.s)
            ELSE Raise("ValidationError", {})
      [] f.ty = "DecimalField" -> DecimalField_deserialize(value)
      [] f.ty = "Integer" ->
            IF value.t = "int" THEN value
            ELSE IF value.t = "str" /\ AllDigits(value.s) THEN IntV(StrNat(value.s))
            ELSE Raise("ValidationError", {})

\* Schema.load with unknown = EXCLUDE: every declared, loadable field is
\* required; field errors are collected under the field's wire key, and an
\* exception that is no ValidationError ends the load at once
Load(schema, data) ==
    LET fs == {i \in 1..Len(schema) : ~DumpOnly(schema[i])}
        r == [i \in fs |->
                IF Has(data, schema[i].key)
                THEN FieldDeserialize(schema[i], data[schema[i].key])
                ELSE Raise("ValidationError", {})]
        crashed == {i \in fs : IsRaise(r[i]) /\ r[i].e # "ValidationError"}
        errors == {schema[i].key : i \in {j \in fs : IsRaise(r[j])}}
    IN  IF crashed # {}
        THEN r[CHOOSE i \in crashed : \A j \in crashed : i <= j]
        ELSE IF errors # {} THEN Raise("ValidationError", errors)
        ELSE Dict([a \in {schema[i].attr : i \in fs} |->
                     r[CHOOSE i \in fs : schema[i].attr = a]])

\* make_stock / make_trade (post_load)
PostLoad(schema, loaded) ==
    IF IsRaise(loaded) THEN loaded
    ELSE IF schema = StockSchema THEN NewStock(loaded.m)
    ELSE NewTrade(loaded.m)

serialize_with_marshmallow(inst) ==
    CASE inst.t = "Stock" ->
            LET data == Dump(StockSchema, inst)
            IN  IF IsRaise(data) THEN data
                ELSE IF Has(data.m, "open_")
                THEN Dict(Put(Del(data.m, "open_"), "open", data.m["open_"]))
                ELSE data
      [] inst.t = "Trade" -> Dump(TradeSchema, inst)
      [] OTHER -> Raise("ValueError", {})

\* deserialize_with_marshmallow; json_str is the parsed JSON object.  Every
\* exception leaves as ValueError("Failed to deserialize: " + str(e)), which
\* names the fields that str(e) names
deserialize_with_marshmallow(json_str, schema) ==
    LET data == json_str.m
        renamed == IF schema = StockSchema /\ Has(data, "open_")
                   THEN Put(Del(data, "open_"), "open", data["open_"])
                   ELSE data
        r == IF schema = StockSchema /\ ~Has(data, "open_") /\ ~Has(data, "open")
             THEN Raise("ValueError", {"open"})
             ELSE PostLoad(schema, Load(schema, renamed))
    IN  IF IsRaise(r) THEN Raise("ValueError", r.named) ELSE r

-----------------------------------------------------------------------------
(* Inputs: valid records *)

Nil == [t |-> "none"]

Symbols == {<<"A", "A", "P", "L">>, <<"M", "S", "F", "T">>}

Dates == {Date(2023, 1, 5), Date(1, 12, 31), Date(2024, 2, 29)}

\* coefficient digits of the decimal inputs (no leading zero, as Decimal keeps them)
Coefficients == {<<"0">>, <<"5">>, <<"1", "0", "0", "5", "0">>}

Decimals == {Dec(0, c, -e) : c \in Coefficients, e \in 0..MaxScale}
                \cup {Dec(1, <<"5">>, -MaxScale)}

Timestamps ==
    {DateTime(Date(2023, 1, 5), 9, 30, 0, 0, 0),
     DateTime(Date(2024, 2, 29), 23, 59, 59, 250000, -330),
     DateTime(Date(1, 12, 31), 0, 0, 1, 7, 60)}

Volumes == {0, 1500}

StockArgs ==
    [symbol : {Str(x) : x \in Symbols}, date : Dates, open_ : Decimals,
     high : {Dec(0, <<"1", "0", "1">>, 0)}, low : {Dec(0, <<"9", "9", "5">>, -1)},
     close : {Dec(0, <<"1", "0", "0", "5">>, -1), Dec(0, <<"1">>, -MaxScale)},
     volume : {IntV(v) : v \in Volumes}]

TradeArgs ==
    [symbol : {Str(x) : x \in Symbols}, timestamp : Timestamps,
     order : {Str(S_buy), Str(S_sell)}, price : Decimals,
     volume : {IntV(v) : v \in Volumes}, commission : {Dec(0, <<"9", "9">>, -MaxScale)}]

\* the __dict__ of the record as its constructor leaves it
Construct(k, a) ==
    IF k = "stock"
    THEN Stock(a.symbol, a.date, a.open_, a.high, a.low, a.close, a.volume)
    ELSE Trade(a.symbol, a.timestamp, a.order, a.price, a.volume, a.commission)

ClassOf(k) == IF k = "stock" THEN "Stock" ELSE "Trade"
SchemaOf(k) == IF k = "stock" THEN StockSchema ELSE TradeSchema

\* the record x as it is now
Inst == [t |-> ClassOf(kind), d |-> obj]

Threads == {1, 2}

NoThreads == /\ pc = <<>> /\ held = <<>> /\ out = <<>>

-----------------------------------------------------------------------------
(* Spec: one record x, encoded and decoded by both codec paths, in any order *)

Init ==
    /\ kind \in {"stock", "trade"}
    /\ args \in (IF kind = "stock" THEN StockArgs ELSE TradeArgs)
    /\ obj = Construct(kind, args)
    /\ hist = <<>>
    /\ enc = "none" /\ wire = Nil
    /\ dec = "none" /\ result = Nil
    /\ shape = "none"
    /\ NoThreads

\* json.dumps(x, cls=CustomEncoder)
EncodeTagged ==
    /\ Len(hist) < MaxCalls
    /\ LET data == default(Inst)
       IN  /\ obj' = data.m
           /\ wire' = json_dumps(data)
    /\ enc' = "tagged"
    /\ hist' = Append(hist, "tagged")
    /\ dec' = "none" /\ result' = Nil
    /\ UNCHANGED <<kind, args, shape, pc, held, out>>

\* serialize_with_marshmallow(x)
SerializeMarshmallow ==
    /\ Len(hist) < MaxCalls
    /\ wire' = serialize_with_marshmallow(Inst)
    /\ enc' = "schema"
    /\ hist' = Append(hist, "schema")
    /\ dec' = "none" /\ result' = Nil
    /\ UNCHANGED <<kind, args, obj, shape, pc, held, out>>

\* json.loads(text, object_hook=custom_decoder) on the last encoder output
DecodeTagged ==
    /\ enc # "none" /\ ~IsRaise(wire) /\ dec # "tagged"
    /\ result' = json_loads_hook(wire)
    /\ dec' = "tagged"
    /\ UNCHANGED <<kind, args, obj, hist, enc, wire, shape, pc, held, out>>

\* deserialize_with_marshmallow(text, schema of x's class) on the last encoder output
DeserializeMarshmallow ==
    /\ enc # "none" /\ ~IsRaise(wire) /\ dec # "schema"
    /\ result' = deserialize_with_marshmallow(wire, SchemaOf(kind))
    /\ dec' = "schema"
    /\ UNCHANGED <<kind, args, obj, hist, enc, wire, shape, pc, held, out>>

Next ==
    \/ EncodeTagged
    \/ SerializeMarshmallow
    \/ DecodeTagged
    \/ DeserializeMarshmallow

Spec == Init /\ [][Next]_vars

-----------------------------------------------------------------------------
(* SpecDecoder: custom_decoder on hand-built mappings *)

DateShapes == {"bare", "wrapped", "native"}

\* a stock mapping for the constructor arguments a: decimals as text, the
\* opening price under key openkey, the date in the given shape
StockMapping(a, sh, openkey) ==
    Put([symbol |-> a.symbol,
         date |-> CASE sh = "bare" -> Str(date_isoformat(a.date))
                    [] sh = "wrapped" ->
                         Dict([datatype |-> Str(S_date), date |-> Str(date_isoformat(a.date))])
                    [] OTHER -> a.date,
         high |-> Str(DecStr(a.high)), low |-> Str(DecStr(a.low)),
         close |-> Str(DecStr(a.close)), volume |-> a.volume,
         datatype |-> Str(S_stock)],
        openkey, Str(DecStr(a.open_)))

TradeMapping(a) ==
    [symbol |-> a.symbol, timestamp |-> Str(datetime_isoformat(a.timestamp)),
     order |-> a.order, price |-> Str(DecStr(a.price)),
     commission |-> Str(DecStr(a.commission)), volume |-> a.volume,
     datatype |-> Str(S_trade)]

\* datatype values outside {stock, trade, date}
UnknownTags == {Str(S_option), Str(S_hold), Str(<<>>), IntV(1)}

InitDecoder ==
    /\ kind \in {"stock", "trade", "date", "unknown", "untagged"}
    /\ \/ /\ kind = "stock"
          /\ args \in StockArgs
          /\ shape \in DateShapes
          /\ \E k \in {"open", "open_"} : wire = Dict(StockMapping(args, shape, k))
       \/ /\ kind = "trade"
          /\ args \in TradeArgs
          /\ shape = "none"
          /\ wire = Dict(TradeMapping(args))
       \/ /\ kind = "date"
          /\ args \in Dates
          /\ shape = "wrapped"
          /\ wire = Dict([datatype |-> Str(S_date), date |-> Str(date_isoformat(args))])
       \/ /\ kind = "unknown"
          /\ args \in UnknownTags
          /\ shape = "none"
          /\ \E a \in StockArgs :
                wire \in {Dict([datatype |-> args, x |-> IntV(1)]),
                          Dict(Put(StockMapping(a, "bare", "open"), "datatype", args))}
       \/ /\ kind = "untagged"
          /\ args = Nil
          /\ shape = "none"
          /\ \E a \in TradeArgs : wire = Dict(Del(TradeMapping(a), "datatype"))
    /\ obj = <<>> /\ hist = <<>>
    /\ enc = "none"
    /\ dec = "none" /\ result = Nil
    /\ NoThreads

\* custom_decoder(mapping), called directly
DecodeDirect ==
    /\ dec = "none"
    /\ result' = custom_decoder(wire)
    /\ dec' = "direct"
    /\ UNCHANGED <<kind, args, obj, hist, enc, wire, shape, pc, held, out>>

\* json.loads(text, object_hook=custom_decoder); a native date has no JSON text
DecodeLoads ==
    /\ dec = "none" /\ shape # "native"
    /\ result' = json_loads_hook(wire)
    /\ dec' = "loads"
    /\ UNCHANGED <<kind, args, obj, hist, enc, wire, shape, pc, held, out>>

NextDecoder == DecodeDirect \/ DecodeLoads

SpecDecoder == InitDecoder /\ [][NextDecoder]_vars

-----------------------------------------------------------------------------
(* SpecSchema: deserialize_with_marshmallow on mappings with missing and    *)
(* invalid fields                                                           *)

S_abc == <<"a", "b", "c">>

\* the wire keys a schema loads
LoadKeys(schema) == {schema[i].key : i \in {j \in 1..Len(schema) : ~DumpOnly(schema[j])}}

FieldOfKey(schema, k) == schema[CHOOSE i \in 1..Len(schema) : schema[i].key = k]

\* a value the field accepts
ValidValue(f) ==
    CASE f.ty = "Str4" -> Str(<<"A", "A", "P", "L">>)
      [] f.ty = "OneOf" -> Str(S_sell)
      [] f.ty = "Date" -> Str(date_isoformat(Date(2023, 1, 5)))
      [] f.ty = "DateTime" ->
            Str(datetime_isoformat(DateTime(Date(2023, 1, 5), 9, 30, 0, 0, -300)))
      [] f.ty = "DecimalField" -> Str(DecStr(Dec(0, <<"1", "0", "0", "5", "0">>, -2)))
      [] f.ty = "Integer" -> IntV(1500)

\* a value the field's contract rejects: a 3-character symbol, an order that
\* is neither buy nor sell, month 13, text that is no number
InvalidValue(f) ==
    CASE f.ty = "Str4" -> Str(S_abc)
      [] f.ty = "OneOf" -> Str(S_hold)
      [] f.ty = "Date" -> Str(date_isoformat(Date(2023, 13, 5)))
      [] f.ty = "DateTime" -> Str(date_isoformat(Date(2023, 1, 5)))
      [] f.ty = "DecimalField" -> Str(S_abc)
      [] f.ty = "Integer" -> Str(S_abc)

\* the input mapping in which field k is ok, missing or invalid as st[k] says;
\* the datatype tag an encoder writes is there as well
SchemaInput(schema, st) ==
    LET present == {k \in DOMAIN st : st[k] # "missing"}
    IN  [k \in present \cup {"datatype"} |->
            IF k \notin present THEN Str(IF schema = StockSchema THEN S_stock ELSE S_trade)
            ELSE IF st[k] = "ok" THEN ValidValue(FieldOfKey(schema, k))
            ELSE InvalidValue(FieldOfKey(schema, k))]

InitSchema ==
    /\ kind \in {"stock", "trade"}
    /\ args \in [LoadKeys(SchemaOf(kind)) -> {"ok", "missing", "invalid"}]
    /\ wire = Dict(SchemaInput(SchemaOf(kind), args))
    /\ obj = <<>> /\ hist = <<>>
    /\ enc = "none" /\ shape = "none"
    /\ dec = "none" /\ result = Nil
    /\ NoThreads

\* deserialize_with_marshmallow(mapping, StockSchema() or TradeSchema())
Validate ==
    /\ dec = "none"
    /\ result' = deserialize_with_marshmallow(wire, SchemaOf(kind))
    /\ dec' = "schema"
    /\ UNCHANGED <<kind, args, obj, hist, enc, wire, shape, pc, held, out>>

NextSchema == Validate

SpecSchema == InitSchema /\ [][NextSchema]_vars

-----------------------------------------------------------------------------
(* SpecThreads: two threads run CustomEncoder.default on the same Stock.    *)
(* A thread may be switched out between any two of its steps; each dict     *)
(* operation (membership test, pop, item assignment, taking the items) is   *)
(* one step.                                                                *)

InitThreads ==
    /\ kind = "stock"
    /\ args \in StockArgs
    /\ obj = Construct(kind, args)
    /\ hist = <<>>
    /\ enc = "none" /\ wire = Nil /\ shape = "none"
    /\ dec = "none" /\ result = Nil
    /\ pc = [t \in Threads |-> "start"]
    /\ held = [t \in Threads |-> Nil]
    /\ out = [t \in Threads |-> Nil]

\* data = arg.toJSON(): a reference to the record's own __dict__
T_toJSON(t) ==
    /\ pc[t] = "start"
    /\ pc' = [pc EXCEPT ![t] = "test"]
    /\ UNCHANGED <<kind, args, obj, hist, enc, wire, dec, result, held, out, shape>>

\* if 'open' in data
T_test(t) ==
    /\ pc[t] = "test"
    /\ pc' = [pc EXCEPT ![t] = IF Has(obj, "open") THEN "pop" ELSE "return"]
    /\ UNCHANGED <<kind, args, obj, hist, enc, wire, dec, result, held, out, shape>>

\* data.pop('open'): a KeyError when the key is no longer there
T_pop(t) ==
    /\ pc[t] = "pop"
    /\ IF Has(obj, "open")
       THEN /\ held' = [held EXCEPT ![t] = obj["open"]]
            /\ obj' = Del(obj, "open")
            /\ pc' = [pc EXCEPT ![t] = "store"]
            /\ out' = out
       ELSE /\ out' = [out EXCEPT ![t] = Raise("KeyError", {"open"})]
            /\ pc' = [pc EXCEPT ![t] = "done"]
            /\ UNCHANGED <<held, obj>>
    /\ UNCHANGED <<kind, args, hist, enc, wire, dec, result, shape>>

\* data['open_'] = <the popped value>
T_store(t) ==
    /\ pc[t] = "store"
    /\ obj' = Put(obj, "open_", held[t])
    /\ pc' = [pc EXCEPT ![t] = "return"]
    /\ UNCHANGED <<kind, args, hist, enc, wire, dec, result, held, out, shape>>

\* return data: the JSON encoder takes the items the dict has now
T_return(t) ==
    /\ pc[t] = "return"
    /\ out' = [out EXCEPT ![t] = json_dumps(Dict(obj))]
    /\ pc' = [pc EXCEPT ![t] = "done"]
    /\ UNCHANGED <<kind, args, obj, hist, enc, wire, dec, result, held, shape>>

NextThreads ==
    \E t \in Threads :
        \/ T_toJSON(t)
        \/ T_test(t)
        \/ T_pop(t)
        \/ T_store(t)
        \/ T_return(t)

SpecThreads == InitThreads /\ [][NextThreads]_vars

-----------------------------------------------------------------------------
(* The claims *)

\* x as its constructor left it
Constructed == [t |-> ClassOf(kind), d |-> Construct(kind, args)]

\* C1 (Spec): tagged-path round trip.  When the tagged decoder has decoded
\* what the tagged encoder produced for x, the decoded record is of x's class
\* and its fields equal those of x, name for name and value for value.
C1_TaggedRoundTrip ==
    (enc = "tagged" /\ dec = "tagged") => result = Inst

\* The same round trip measured against the values x was constructed with
\* (for the record: this one holds in every state of Spec).
TaggedRoundTripOfConstructed ==
    (enc = "tagged" /\ dec = "tagged") => result = Constructed

\* C2 (Spec): schema-path round trip.  For a record that has just been
\* constructed, deserialize_with_marshmallow on the text that
\* serialize_with_marshmallow returned succeeds and returns a record
\* field-equal to x.
C2_SchemaRoundTrip ==
    (hist = <<"schema">> /\ dec = "schema") => result = Inst

\* C3 (Spec): cross-path interoperability.  Text from one path's encoder,
\* given to the other path's decoder, yields a record field-equal to x (as
\* constructed).
C3_CrossPath ==
    ((enc = "schema" /\ dec = "tagged") \/ (enc = "tagged" /\ dec = "schema"))
        => result = Constructed

\* C4 (Spec): open field renaming on encode.  The wire mapping either
\* encoder produces for a Stock has the key open, holding the opening price,
\* and never the key open_.
C4_OpenKeyOnWire ==
    (kind = "stock" /\ enc # "none") =>
        /\ wire.t = "dict"
        /\ Has(wire.m, "open")
        /\ wire.m["open"] = Str(DecStr(args.open_))
        /\ ~Has(wire.m, "open_")

\* C5 (SpecDecoder): unknown discriminant rejected.  On a mapping whose
\* datatype is none of stock, trade, date the tagged decoder fails with
\* UnknownDatatype; it never returns the mapping or any other value.
C5_UnknownDatatypeRejected ==
    (kind = "unknown" /\ dec # "none") =>
        (IsRaise(result) /\ result.e = "UnknownDatatype")

\* C6 (Spec): encoding is pure with respect to the record.  A call of the
\* tagged encoder leaves x with the same field names and values it had
\* before the call.
C6_EncodeLeavesRecord == [][EncodeTagged => obj' = obj]_vars

\* the wire mapping of a Stock is complete: the six other fields, the
\* datatype tag and the opening price (under either of its names)
CompleteStockWire(w) ==
    /\ w.t = "dict"
    /\ {"symbol", "date", "high", "low", "close", "volume", "datatype"} \subseteq DOMAIN w.m
    /\ (Has(w.m, "open") \/ Has(w.m, "open_"))

\* C7 (SpecThreads): concurrent encodes need no coordination.  Under every
\* interleaving, a finished call has raised nothing and has returned the
\* complete wire mapping.
C7_ConcurrentEncodes ==
    \A t \in Threads : pc[t] = "done" => CompleteStockWire(out[t])

\* C8 (SpecSchema): aggregated validation errors.  When
\* deserialize_with_marshmallow fails, its error names every field of the
\* input that is missing or invalid.
C8_ErrorNamesEveryField ==
    (dec = "schema" /\ IsRaise(result)) =>
        {k \in DOMAIN args : args[k] # "ok"} \subseteq result.named

\* C9 (SpecDecoder): date-shape tolerance.  For a stock mapping whose date
\* is the bare ISO text of d, the wrapped mapping of d or the native date d,
\* the tagged decoder returns the same Stock, the one whose date is d.
C9_DateShapeTolerance ==
    (kind = "stock" /\ dec # "none") =>
        result = [t |-> "Stock", d |-> Construct("stock", args)]

\* C9, witness: a stock mapping with a wrapped date has been decoded by a
\* direct call of custom_decoder, which returned a Stock.
C9_WrappedDateDecoded ==
    /\ kind = "stock" /\ shape = "wrapped" /\ dec = "direct"
    /\ result.t = "Stock"
    /\ result.d["date"] = args.date

\* C10 (Spec): no cross-call state.  Whatever calls were applied to x
\* before, serialize_with_marshmallow(x) returns what it returns for x as
\* constructed.
C10_SerializeIgnoresHistory ==
    enc = "schema" => wire = serialize_with_marshmallow(Constructed)

=============================================================================
